---- MODULE Spec2Model ----
(***************************************************************************)
(* Model of sonarqube-dash-cli's interactive issue browser                 *)
(* (browseIssuesTui) together with the API functions it awaits             *)
(* (getIssues, getIssueSource, getBranches).                               *)
(*                                                                         *)
(* JavaScript runs each handler to its next `await` without interleaving,  *)
(* so every action below is one such run: a key handler up to its network  *)
(* call, or the resumption of a suspended handler up to its end.           *)
(* Keyboard input only; the terminal's mouse events are not modelled.      *)
(***************************************************************************)
EXTENDS Integers, Sequences, FiniteSets, TLC

\* ------------------------------------------------------------------------
\* Bounds of the exploration (not program constants)
\* ------------------------------------------------------------------------
MaxKeys == 4         \* keys pressed in a session

\* ------------------------------------------------------------------------
\* Program constants
\* ------------------------------------------------------------------------
DefaultContextLines == 5
PageSizeCap == 500
TruncateWidth == 50

Min(a, b) == IF a < b THEN a ELSE b
Max(a, b) == IF a > b THEN a ELSE b

\* ------------------------------------------------------------------------
\* The remote server: branches, issues per branch, files
\* ------------------------------------------------------------------------
NoBranch == ""

ServerBranches == <<"main", "develop", "clean">>

ServerIssues(b) ==
  CASE b = "develop" -> <<"d1", "d2">>
    [] b = "clean"   -> << >>
    [] OTHER         -> <<"m1", "m2", "m3">>

\* component "" models an issue without component; line 0 an absent line
\* (both are falsy in the code's tests)
IssueComponent(k) ==
  CASE k = "m1" -> "a.js"
    [] k = "m2" -> "b.js"
    [] k = "m3" -> ""
    [] k = "d1" -> "a.js"
    [] OTHER    -> "c.js"

IssueLine(k) == CASE k = "m1" -> 2 [] k = "d1" -> 7 [] OTHER -> 0

IssueStartLine(k) == CASE k = "m2" -> 1 [] OTHER -> 0

IssueSeverity(k) ==
  CASE k = "m1" -> "BLOCKER"
    [] k = "m2" -> "MAJOR"
    [] k = "m3" -> "MINOR"
    [] k = "d1" -> "CRITICAL"
    [] OTHER    -> "INFO"

\* length of the message; 0 is an absent (or empty) message
IssueMessageLen(k) == CASE k = "m2" -> 60 [] k = "d2" -> 0 [] OTHER -> 12

Issue(k) ==
  [key |-> k, component |-> IssueComponent(k), line |-> IssueLine(k),
   startLine |-> IssueStartLine(k), severity |-> IssueSeverity(k),
   msgLen |-> IssueMessageLen(k)]

NoIssue == [key |-> "", component |-> "", line |-> 0, startLine |-> 0,
            severity |-> "", msgLen |-> 0]

ServerFile(c) ==
  CASE c = "a.js" -> <<"a1", "a2", "a3">>
    [] c = "b.js" -> <<"b1">>
    [] OTHER      -> <<"c1", "c2">>

\* ------------------------------------------------------------------------
\* API functions (lib/api.js)
\* ------------------------------------------------------------------------
\* Array.prototype.slice(0, n) for n >= 0
Slice(s, n) == SubSeq(s, 1, Min(n, Len(s)))

\* /api/issues/search with page size ps: the server returns the first page
ServerSearch(b, ps) == Slice(ServerIssues(b), ps)

\* getIssues: the issues field of the resolved value (the request succeeded)
getIssues(b, limit) ==
  LET ps == Min(limit, PageSizeCap)
  IN Slice(ServerSearch(b, ps), limit)

\* Outcomes of the two source requests.  A text is a sequence of lines;
\* the empty string is the one-line text <<"">>.
EmptyText == <<"">>
RawOk(c) == [ok |-> TRUE, data |-> ServerFile(c)]
RawEmpty == [ok |-> TRUE, data |-> EmptyText]
RawFail == [ok |-> FALSE, data |-> EmptyText]
ShowOk(c) == [ok |-> TRUE, isArray |-> TRUE, codes |-> ServerFile(c)]
ShowNoArray == [ok |-> TRUE, isArray |-> FALSE, codes |-> << >>]
ShowFail == [ok |-> FALSE, isArray |-> FALSE, codes |-> << >>]

\* variant of JoinLines keeping only the first record
JoinLines_first(codes) ==
  IF codes = << >> THEN EmptyText ELSE <<codes[1]>>

\* sources.map(l => l.code).join("\n")
JoinLines(codes) == IF codes = << >> THEN EmptyText ELSE codes

NullSource ==
  [isNull |-> TRUE, content |-> EmptyText, snippet |-> << >>,
   hasWindow |-> FALSE, start |-> 0, end |-> 0, focus |-> 0]

\* the loop building snippetLines: one rendered line per ln in start..end
SnippetLines(lines, start, end, idx) ==
  [i \in 1..Max(0, end - start + 1) |->
     [marker |-> IF start + i - 1 = idx THEN ">" ELSE " ",
      ln |-> start + i - 1,
      text |-> lines[start + i - 1]]]

\* issue.line || issue.textRange?.startLine; an absent field and 0 are both
\* falsy and are both written 0
FocusLine(issue) == IF issue.line # 0 THEN issue.line ELSE issue.startLine

\* variant of WindowStart with one line less of leading context
WindowStart_narrow(idx, contextLines) == Max(1, idx - contextLines + 1)

WindowStart(idx, contextLines) == Max(1, idx - contextLines)

WindowEnd(lines, idx, contextLines) == Min(Len(lines), idx + contextLines)

\* what follows once content was retrieved
SourceFromContent(issue, content, contextLines) ==
  IF content = EmptyText THEN NullSource
  ELSE LET lines == content
           focusLine == FocusLine(issue)
       IN IF focusLine = 0
          THEN [isNull |-> FALSE, content |-> content, snippet |-> << >>,
                hasWindow |-> FALSE, start |-> 0, end |-> 0, focus |-> 0]
          ELSE LET idx == Max(1, focusLine)
                   start == WindowStart(idx, contextLines)
                   end == WindowEnd(lines, idx, contextLines)
               IN [isNull |-> FALSE, content |-> content,
                   snippet |-> SnippetLines(lines, start, end, idx),
                   hasWindow |-> TRUE, start |-> start, end |-> end,
                   focus |-> idx]

\* variant of LacksComponent that only tests for an issue
LacksComponent_issueOnly(issue) == issue = NoIssue

\* !issue || !issue.component
LacksComponent(issue) == issue = NoIssue \/ issue.component = ""

getIssueSource(issue, raw, show, contextLines) ==
  IF LacksComponent(issue) THEN NullSource
  ELSE IF raw.ok THEN SourceFromContent(issue, raw.data, contextLines)
  ELSE IF ~show.ok THEN NullSource
  ELSE IF show.isArray
       THEN SourceFromContent(issue, JoinLines(show.codes), contextLines)
       ELSE NullSource

\* getBranches: a failed request and a body without branches both give []
BranchesOk == [ok |-> TRUE, branches |-> ServerBranches]
BranchesNone == [ok |-> TRUE, branches |-> << >>]
BranchesFail == [ok |-> FALSE, branches |-> << >>]

getBranches(res) == IF res.ok THEN res.branches ELSE << >>

\* ------------------------------------------------------------------------
\* browseIssuesTui: state
\* ------------------------------------------------------------------------
VARIABLES
  phase,          \* "entry", "empty" (returned: no issues), "running", "exited"
  issues,         \* the closure's issue list (sequence of issue keys)
  branch,         \* the branch parameter of browseIssuesTui
  items,          \* rows of the list widget
  label,          \* label of the list widget
  selected,       \* list.selected
  focus,          \* 0: the issue list has the focus; n > 0: picker n has it
  renderSeq,
  lastRendered,
  detail,         \* content of the detail pane
  code,           \* content of the code pane
  status,         \* content of the status line
  fetches,        \* render calls suspended on getIssueSource
  branchReqs,     \* 'b' handlers suspended on getBranches (ids)
  bPressed,       \* number of 'b' handlers started
  openBoxes,      \* pickers created and not destroyed
  choices,        \* picker 'select' handlers, in the order they were started
  screenDestroyed,
  origTERM,       \* process.env.TERM when browseIssuesTui was called
  envTERM,        \* process.env.TERM
  termDowngraded,
  destroyHook,    \* screen.on("destroy") is registered
  keys,           \* number of keys handled so far
  ev,             \* the handler run that produced this state
  \* one call of getIssueSource, request by request
  srcPc,          \* "off", "call", "raw", "show", "done"
  srcIssue,       \* the issue argument
  srcText,        \* the text of the issue's file on the server
  srcRaw,         \* outcome of the sources/raw request
  srcShow,        \* outcome of the sources/show request
  srcReqs,        \* requests sent so far, in order
  srcResult,      \* the value the call resolved to
  \* one run of a command that resolves the configuration
  cfgPc,          \* "off", "call", "built", "done"
  cfgCmd,         \* the command
  cfgFile,        \* configFromFile
  cfgEnv,         \* the SONARQUBE_DASH_* environment variables
  cfgFlags,       \* the command's options
  cfgMerged,      \* the merged configuration object
  cfgOut,         \* the JSON object printed
  cfgKey,         \* the <key> argument of the command
  cfgPairs,       \* the <kv...> arguments of config set
  cfgLine,        \* the text line printed on standard output
  cfgErr,         \* the message printed on standard error
  cfgExit,        \* the exit code; -1 while the command has not ended
  cfgReqs         \* the authenticated requests sent, in order

tuiVars == <<phase, issues, branch, items, label, selected, focus, renderSeq,
             lastRendered, detail, code, status, fetches, branchReqs,
             bPressed, openBoxes, choices, screenDestroyed, origTERM,
             envTERM, termDowngraded, destroyHook, keys, ev>>
srcVars == <<srcPc, srcIssue, srcText, srcRaw, srcShow, srcReqs, srcResult>>
cfgVars == <<cfgPc, cfgCmd, cfgFile, cfgEnv, cfgFlags, cfgMerged, cfgOut,
             cfgKey, cfgPairs, cfgLine, cfgErr, cfgExit, cfgReqs>>
libVars == <<srcVars, cfgVars>>
vars == <<tuiVars, srcVars, cfgVars>>

termVars == <<origTERM, envTERM, termDowngraded>>
listVars == <<issues, items, label, selected>>
renderVars == <<renderSeq, lastRendered, detail, code, fetches>>
pickerVars == <<branchReqs, bPressed, openBoxes, choices>>

\* status line texts
Help == "help"
HelpRefreshing == "help  refreshing code..."
HelpLoadingBranches == "help  loading branches..."
HelpNoBranches == "help  no branches"
HelpBranchLoadFailed == "help  branch load failed"

\* continuation of a suspended render: what its caller does after it
TailNone == 0
TailStartup == 0 - 1

\* pane contents
Blank == [kind |-> "blank", key |-> "", seq |-> 0]
Loading(issue, seq) == [kind |-> "loading", key |-> issue.key, seq |-> seq]
NoSnippet(issue, seq) == [kind |-> "nosnippet", key |-> issue.key, seq |-> seq]
Snippet(issue, seq) == [kind |-> "snippet", key |-> issue.key, seq |-> seq]

NoDetail == [key |-> "", branch |-> ""]
DetailBody(issue) == [key |-> issue.key, branch |-> branch]

\* truncate(str, n) on a string of the given length: resulting length and
\* whether it ends with the ellipsis
truncate(len, n) ==
  IF len > n THEN [len |-> n, ellipsis |-> TRUE]
  ELSE [len |-> len, ellipsis |-> FALSE]

\* i.message || "(no message)"
MessageOrDefault(len) == IF len = 0 THEN 12 ELSE len

Row(k) ==
  [severity |-> Issue(k).severity,
   message |-> truncate(MessageOrDefault(Issue(k).msgLen), TruncateWidth)]

Rows(iss) == [i \in 1..Len(iss) |-> Row(iss[i])]

ListLabel(iss, b) == [count |-> Len(iss), branch |-> b]

Event(op, n, fetched, b) == [op |-> op, n |-> n, fetched |-> fetched, b |-> b]

\* ------------------------------------------------------------------------
\* No call of getIssueSource / no configuration command under way
\* ------------------------------------------------------------------------
\* objects are functions from their own keys to values; a key may be
\* present with the value undefined
Undefined == "undefined"

NoFields == [f \in {} |-> Undefined]

\* o[k]
Get(o, k) == IF k \in DOMAIN o THEN o[k] ELSE Undefined

\* o[k] = v
Set(o, k, v) == [x \in DOMAIN o \cup {k} |-> IF x = k THEN v ELSE o[x]]

\* { ...a, ...b }
Spread(a, b) ==
  [k \in DOMAIN a \cup DOMAIN b |-> IF k \in DOMAIN b THEN b[k] ELSE a[k]]

\* truthiness of a string or undefined
Truthy(v) == v # Undefined /\ v # ""

\* the keys JSON.stringify writes: those whose value is not undefined
Stringify(o) == [k \in {x \in DOMAIN o : o[x] # Undefined} |-> o[k]]

\* the command has computed, printed and sent nothing
CfgNothingDone ==
  /\ cfgMerged = NoFields
  /\ cfgOut = NoFields
  /\ cfgLine = ""
  /\ cfgErr = ""
  /\ cfgExit = 0 - 1
  /\ cfgReqs = << >>

SrcOff ==
  /\ srcPc = "off"
  /\ srcIssue = NoIssue
  /\ srcText = EmptyText
  /\ srcRaw = RawFail
  /\ srcShow = ShowFail
  /\ srcReqs = << >>
  /\ srcResult = NullSource

CfgOff ==
  /\ cfgPc = "off"
  /\ cfgCmd = ""
  /\ cfgKey = ""
  /\ cfgPairs = << >>
  /\ cfgFile = NoFields
  /\ cfgEnv = NoFields
  /\ cfgFlags = NoFields
  /\ CfgNothingDone

\* ------------------------------------------------------------------------
\* Inputs of browseIssuesTui: what runIssues passes
\* ------------------------------------------------------------------------
InitBranches == {"main", "clean"}
InitLimits == {1, 3}

\* nothing created yet: no screen, no widget, no handler, no request
TuiIdle ==
  /\ items = << >>
  /\ label = ListLabel(<< >>, NoBranch)
  /\ selected = 0
  /\ focus = 0
  /\ renderSeq = 0
  /\ lastRendered = 0 - 1
  /\ detail = NoDetail
  /\ code = Blank
  /\ status = ""
  /\ fetches = {}
  /\ branchReqs = {}
  /\ bPressed = 0
  /\ openBoxes = {}
  /\ choices = << >>
  /\ screenDestroyed = FALSE
  /\ envTERM = origTERM
  /\ termDowngraded = FALSE
  /\ destroyHook = FALSE
  /\ keys = 0
  /\ ev = Event("init", 0, FALSE, "")

\* the browser is not part of the run
TuiOff ==
  /\ phase = "off"
  /\ branch = NoBranch
  /\ issues = << >>
  /\ origTERM = "xterm-256color"
  /\ TuiIdle

\* the values of process.env.TERM tried: the one the workaround names, one
\* that holds it in another case inside a longer name, and one without it
TermValues == {"xterm-256color", "screen.Xterm-256COLOR-italic", "vt100"}

Init ==
  /\ phase = "entry"
  /\ \E b \in InitBranches, lim \in InitLimits :
       /\ branch = b
       /\ issues = getIssues(b, lim)
  /\ origTERM \in TermValues
  /\ TuiIdle
  /\ SrcOff
  /\ CfgOff

\* ------------------------------------------------------------------------
\* render(idx)
\* ------------------------------------------------------------------------
\* variant of RenderSkips without the last-rendered test
RenderSkips_never(idx) == FALSE

\* if (idx === lastRendered) return
RenderSkips(idx) == idx = lastRendered

\* variant of IsStale without the staleness test
IsStale_never(mySeq) == FALSE

\* if (mySeq !== renderSeq) return // stale
IsStale(mySeq) == mySeq # renderSeq

\* issues[idx] is defined
HasIssue(iss, idx) == idx + 1 \in DOMAIN iss

\* render(idx) reaches its await on getIssueSource
Suspends(idx, iss) == ~RenderSkips(idx) /\ HasIssue(iss, idx)

\* variant of NextSeq that leaves the counter alone
NextSeq_same(seq) == seq

\* ++renderSeq
NextSeq(seq) == seq + 1

\* variant of render that waits for the fetch in flight before rendering
render_serialized(idx, iss, tl) ==
  /\ fetches = {}
  /\ IF RenderSkips(idx) THEN UNCHANGED renderVars
     ELSE /\ lastRendered' = idx
          /\ renderSeq' = NextSeq(renderSeq)
          /\ IF HasIssue(iss, idx)
             THEN LET issue == Issue(iss[idx + 1]) IN
                  /\ detail' = DetailBody(issue)
                  /\ code' = Loading(issue, NextSeq(renderSeq))
                  /\ fetches' = fetches \cup
                       {[seq |-> NextSeq(renderSeq), issue |-> iss[idx + 1],
                         tail |-> tl]}
             ELSE UNCHANGED <<detail, code, fetches>>

\* render(idx) up to its await, called on the issue list iss; tl is what
\* the caller does once render has returned
render(idx, iss, tl) ==
  IF RenderSkips(idx) THEN UNCHANGED renderVars
  ELSE /\ lastRendered' = idx
       /\ renderSeq' = NextSeq(renderSeq)
       /\ IF HasIssue(iss, idx)
          THEN LET issue == Issue(iss[idx + 1]) IN
               /\ detail' = DetailBody(issue)
               /\ code' = Loading(issue, NextSeq(renderSeq))
               /\ fetches' = fetches \cup
                    {[seq |-> NextSeq(renderSeq), issue |-> iss[idx + 1],
                      tail |-> tl]}
          ELSE UNCHANGED <<detail, code, fetches>>

\* the statements after `await render(..)` in the caller; st is the status
\* line as the caller left it before them
RunTail(tl, st) ==
  IF tl = TailNone
  THEN status' = st /\ UNCHANGED <<focus, openBoxes, destroyHook>>
  ELSE IF tl = TailStartup
  THEN /\ status' = st
       /\ focus' = 0
       /\ destroyHook' = TRUE
       /\ UNCHANGED openBoxes
  ELSE /\ openBoxes' = openBoxes \ {tl}
       /\ status' = Help
       /\ focus' = 0
       /\ UNCHANGED destroyHook

\* code.setContent after the await
CodeAfterFetch(issue, seq, snippet) ==
  IF ~snippet.isNull /\ snippet.snippet # << >>
  THEN Snippet(issue, seq)
  ELSE NoSnippet(issue, seq)

\* ------------------------------------------------------------------------
\* browseIssuesTui: entry
\* ------------------------------------------------------------------------
\* s.toLowerCase(), letter by letter
UpperLetters == "ABCDEFGHIJKLMNOPQRSTUVWXYZ"
LowerLetters == "abcdefghijklmnopqrstuvwxyz"

LowerChar(c) ==
  IF \E i \in 1..Len(UpperLetters) : SubSeq(UpperLetters, i, i) = c
  THEN LET i == CHOOSE j \in 1..Len(UpperLetters) :
                  SubSeq(UpperLetters, j, j) = c
       IN SubSeq(LowerLetters, i, i)
  ELSE c

RECURSIVE Lower(_)
Lower(s) ==
  IF Len(s) = 0 THEN ""
  ELSE LowerChar(SubSeq(s, 1, 1)) \o Lower(SubSeq(s, 2, Len(s)))

\* p occurs in s
Contains(s, p) ==
  \E i \in 1..(Len(s) - Len(p) + 1) : SubSeq(s, i, i + Len(p) - 1) = p

\* __origTERM && /xterm-256color/i.test(__origTERM)
Matches256(t) == Truthy(t) /\ Contains(Lower(t), "xterm-256color")

\* __restoreTERM()
RestoredTERM == IF termDowngraded THEN origTERM ELSE envTERM

\* console.log(chalk.green("No issues."))
NoIssuesText == "No issues."

\* variant of NoIssuesAtEntry without the emptiness test
NoIssuesAtEntry_never(iss) == FALSE

\* if (!issues.length)
NoIssuesAtEntry(iss) == Len(iss) = 0

Start ==
  /\ phase = "entry"
  /\ UNCHANGED libVars
  /\ UNCHANGED keys
  /\ termDowngraded' = Matches256(origTERM)
  /\ envTERM' = IF Matches256(origTERM) THEN "xterm" ELSE envTERM
  /\ UNCHANGED <<origTERM, issues, branch, pickerVars, screenDestroyed>>
  /\ IF NoIssuesAtEntry(issues)
     THEN /\ phase' = "empty"
          /\ UNCHANGED <<items, label, selected, status, renderVars, focus,
                         destroyHook>>
          /\ ev' = Event("start", 0, FALSE, NoIssuesText)
     ELSE /\ phase' = "running"
          /\ items' = Rows(issues)
          /\ label' = ListLabel(issues, branch)
          /\ selected' = 0
          /\ status' = Help
          /\ render(0, issues, TailStartup)
          /\ IF Suspends(0, issues)
             THEN UNCHANGED <<focus, destroyHook>>
             ELSE focus' = 0 /\ destroyHook' = TRUE
          /\ ev' = Event("start", renderSeq, Suspends(0, issues), "")

\* ------------------------------------------------------------------------
\* Key handlers of the issue list
\* ------------------------------------------------------------------------
\* exploration bound: the user presses at most MaxKeys keys
KeyPressed == keys < MaxKeys /\ keys' = keys + 1

\* the selected index of a list with n > 0 rows asked to select row i: the
\* session keeps 0 <= index < length
Clamp(i, n) == Max(0, Min(n - 1, i))

\* the values the selected index can take on a list without rows, where
\* the session leaves it undefined: no selection (-1) or index 0
EmptySelections == {0 - 1, 0}

\* list.select(i) on a list of n rows: the indices list.selected can hold
\* afterwards
select(i, n) == IF n = 0 THEN EmptySelections ELSE {Clamp(i, n)}

\* up/k (d = -1) and down/j (d = 1): the widget moves the selection, then
\* the keypress handler renders list.selected
KeyNav(d) ==
  /\ phase = "running"
  /\ UNCHANGED libVars
  /\ KeyPressed /\ focus = 0
  /\ \E idx \in select(selected + d, Len(items)) :
       /\ selected' = idx
       /\ render(idx, issues, TailNone)
       /\ ev' = Event("nav", renderSeq, Suspends(idx, issues), "")
  /\ UNCHANGED <<phase, issues, branch, items, label, focus, status,
                 pickerVars, screenDestroyed, termVars, destroyHook>>

\* g / G of the widget's vi keys: first / last row; the keypress handler
\* ignores these key names
KeyJump(last) ==
  /\ phase = "running"
  /\ UNCHANGED libVars
  /\ KeyPressed /\ focus = 0
  /\ selected' \in select(IF last THEN Len(items) - 1 ELSE 0, Len(items))
  /\ selected' # selected
  /\ ev' = Event("jump", renderSeq, FALSE, "")
  /\ UNCHANGED <<phase, issues, branch, items, label, focus, status,
                 renderVars, pickerVars, screenDestroyed, termVars,
                 destroyHook>>

\* enter: the widget emits 'select' with list.selected
KeyEnter ==
  /\ phase = "running"
  /\ UNCHANGED libVars
  /\ KeyPressed /\ focus = 0
  /\ render(selected, issues, TailNone)
  /\ ev' = Event("enter", renderSeq, Suspends(selected, issues), "")
  /\ UNCHANGED <<phase, listVars, branch, focus, status, pickerVars,
                 screenDestroyed, termVars, destroyHook>>

\* ------------------------------------------------------------------------
\* Key handlers of the screen
\* ------------------------------------------------------------------------
KeyR ==
  /\ phase = "running"
  /\ UNCHANGED libVars
  /\ KeyPressed
  /\ status' = HelpRefreshing
  /\ render(selected, issues, TailNone)
  /\ ev' = Event("r", renderSeq, Suspends(selected, issues), "")
  /\ UNCHANGED <<phase, listVars, branch, focus, pickerVars,
                 screenDestroyed, termVars, destroyHook>>

KeyHelp ==
  /\ phase = "running"
  /\ UNCHANGED libVars
  /\ KeyPressed
  /\ status' = Help
  /\ ev' = Event("help", renderSeq, FALSE, "")
  /\ UNCHANGED <<phase, listVars, branch, focus, renderVars, pickerVars,
                 screenDestroyed, termVars, destroyHook>>

\* variant of KeyQuit that exits without destroying the screen
KeyQuit_exitOnly ==
  /\ phase = "running"
  /\ UNCHANGED libVars
  /\ KeyPressed
  /\ phase' = "exited"
  /\ ev' = Event("quit", renderSeq, FALSE, "")
  /\ UNCHANGED <<listVars, branch, focus, status, renderVars, pickerVars,
                 screenDestroyed, termVars, destroyHook>>

KeyQuit ==
  /\ phase = "running"
  /\ UNCHANGED libVars
  /\ KeyPressed
  /\ screenDestroyed' = TRUE
  /\ envTERM' = RestoredTERM
  /\ phase' = "exited"
  /\ ev' = Event("quit", renderSeq, FALSE, "")
  /\ UNCHANGED <<listVars, branch, focus, status, renderVars, pickerVars,
                 origTERM, termDowngraded, destroyHook>>

\* the await on getIssueSource of render call f resolves
SnippetResolve(f, raw, show) ==
  /\ phase = "running"
  /\ UNCHANGED libVars
  /\ UNCHANGED keys
  /\ f \in fetches
  /\ LET issue == Issue(f.issue)
         snippet == getIssueSource(issue, raw, show, DefaultContextLines)
     IN /\ code' = IF IsStale(f.seq) THEN code
                   ELSE CodeAfterFetch(issue, f.seq, snippet)
        /\ ev' = Event("snippet", f.seq, FALSE,
                       IF snippet.isNull THEN "null" ELSE "source")
  /\ fetches' = fetches \ {f}
  /\ RunTail(f.tail, status)
  /\ UNCHANGED <<phase, listVars, branch, renderSeq, lastRendered, detail,
                 branchReqs, bPressed, choices, screenDestroyed, termVars>>

\* ------------------------------------------------------------------------
\* Branch picker
\* ------------------------------------------------------------------------
\* 'b', up to the await on getBranches
KeyB ==
  /\ phase = "running"
  /\ UNCHANGED libVars
  /\ KeyPressed
  /\ status' = HelpLoadingBranches
  /\ bPressed' = bPressed + 1
  /\ branchReqs' = branchReqs \cup {bPressed + 1}
  /\ ev' = Event("b", renderSeq, FALSE, "")
  /\ UNCHANGED <<phase, listVars, branch, focus, renderVars, openBoxes,
                 choices, screenDestroyed, termVars, destroyHook>>

\* variant of NoBranches without the emptiness test
NoBranches_never(branches) == FALSE

\* if (!branches.length)
NoBranches(branches) == Len(branches) = 0

\* the await on getBranches of 'b' handler id resolves; res is the outcome
\* of the request
BranchesResolve(id, res) ==
  /\ phase = "running"
  /\ UNCHANGED libVars
  /\ UNCHANGED keys
  /\ id \in branchReqs
  /\ branchReqs' = branchReqs \ {id}
  /\ LET branches == getBranches(res) IN
     IF NoBranches(branches)
     THEN /\ status' = HelpNoBranches
          /\ UNCHANGED <<openBoxes, focus>>
     ELSE /\ openBoxes' = openBoxes \cup {id}
          /\ focus' = id
          /\ UNCHANGED status
  /\ ev' = Event("branches", id, FALSE,
                 IF ~res.ok THEN "fail"
                 ELSE IF res.branches = << >> THEN "empty" ELSE "ok")
  /\ UNCHANGED <<phase, listVars, branch, renderVars, bPressed, choices,
                 screenDestroyed, termVars, destroyHook>>

\* enter in picker b on row idx, up to the await on getIssues
BoxSelect(b, idx) ==
  /\ phase = "running"
  /\ UNCHANGED libVars
  /\ KeyPressed
  /\ b \in openBoxes /\ focus = b
  /\ choices' = Append(choices,
        [box |-> b, chosen |-> ServerBranches[idx + 1],
         limit |-> Len(issues), outcome |-> "pending"])
  /\ ev' = Event("boxSelect", Len(choices) + 1, FALSE,
                 ServerBranches[idx + 1])
  /\ UNCHANGED <<phase, listVars, branch, focus, status, renderVars,
                 branchReqs, bPressed, openBoxes, screenDestroyed, termVars,
                 destroyHook>>

\* variant of RefetchThrows: the request error is swallowed and an empty
\* list returned, as getBranches does
RefetchThrows_swallowed(ok) == FALSE

\* getIssues rejects when its request fails
RefetchThrows(ok) == ~ok

\* variant of ReplaceIssues appending to the previous list
ReplaceIssues_merge(old, refreshed) == old \o refreshed

\* issues = refreshed.issues
ReplaceIssues(old, refreshed) == refreshed

\* the await on getIssues of choice i resolves; ok is the outcome of the
\* request
RefetchResolve(i, ok) ==
  /\ phase = "running"
  /\ UNCHANGED libVars
  /\ UNCHANGED keys
  /\ i \in DOMAIN choices
  /\ choices[i].outcome = "pending"
  /\ choices' = [choices EXCEPT ![i].outcome = IF ok THEN "ok" ELSE "fail"]
  /\ LET c == choices[i] IN
     IF RefetchThrows(ok)
     THEN \* catch: the failure text, then the statements after try/catch
          /\ RunTail(c.box, HelpBranchLoadFailed)
          /\ ev' = Event(IF ok THEN "refetchOk" ELSE "refetchFail", i, FALSE,
                         c.chosen)
          /\ UNCHANGED <<listVars, renderVars, destroyHook>>
     ELSE LET refreshed == IF ok THEN getIssues(c.chosen, c.limit) ELSE << >>
              new == ReplaceIssues(issues, refreshed)
          IN /\ issues' = new
             /\ items' = Rows(new)
             /\ selected' \in select(0, Len(new))
             /\ label' = ListLabel(new, c.chosen)
             /\ render(0, new, c.box)
             /\ IF Suspends(0, new)
                THEN UNCHANGED <<status, focus, openBoxes, destroyHook>>
                ELSE RunTail(c.box, status)
             /\ ev' = Event(IF ok THEN "refetchOk" ELSE "refetchFail", i,
                            Suspends(0, new), c.chosen)
  /\ UNCHANGED <<phase, branch, branchReqs, bPressed, screenDestroyed,
                 termVars>>

\* escape: the handler of every picker created so far runs
KeyEscape ==
  /\ phase = "running"
  /\ UNCHANGED libVars
  /\ KeyPressed
  /\ openBoxes # {}
  /\ openBoxes' = {}
  /\ status' = Help
  /\ focus' = 0
  /\ ev' = Event("escape", renderSeq, FALSE, "")
  /\ UNCHANGED <<phase, listVars, branch, renderVars, branchReqs, bPressed,
                 choices, screenDestroyed, termVars, destroyHook>>

\* ------------------------------------------------------------------------
\* Specification
\* ------------------------------------------------------------------------
Next ==
  \/ Start
  \/ \E d \in {0 - 1, 1} : KeyNav(d)
  \/ \E last \in BOOLEAN : KeyJump(last)
  \/ KeyEnter
  \/ KeyR
  \/ KeyHelp
  \/ KeyQuit
  \/ \E f \in fetches :
       \E raw \in {RawOk(Issue(f.issue).component), RawFail},
          show \in {ShowOk(Issue(f.issue).component), ShowFail} :
         SnippetResolve(f, raw, show)
  \/ KeyB
  \/ \E id \in branchReqs, res \in {BranchesOk, BranchesNone, BranchesFail} :
       BranchesResolve(id, res)
  \/ \E b \in openBoxes, idx \in 0..(Len(ServerBranches) - 1) :
       BoxSelect(b, idx)
  \/ \E i \in DOMAIN choices, ok \in BOOLEAN : RefetchResolve(i, ok)
  \/ KeyEscape

Spec == Init /\ [][Next]_vars

TypeOK ==
  /\ phase \in {"off", "entry", "empty", "running", "exited"}
  /\ selected \in (0 - 1)..3
  /\ renderSeq \in 0..(MaxKeys + 1)
  /\ lastRendered \in (0 - 1)..3
  /\ Len(items) = Len(issues) \/ phase = "entry" \/ phase = "empty"

\* ------------------------------------------------------------------------
\* getIssueSource, one request at a time
\* ------------------------------------------------------------------------
MaxLine == 12

FileLens == (1..MaxLine) \cup {100}
LineValues == ((0 - 2)..MaxLine) \cup {42}
StartLineValues == {0 - 1, 0, 3}

\* a file of n lines, each line spelling its own number
FileText(n) == [i \in 1..n |-> ToString(i)]

\* the issue arguments tried; has* tells an absent field from a present 0
SrcArgs ==
  {[hasIssue |-> FALSE, component |-> "", hasLine |-> FALSE, line |-> 0,
    hasRange |-> FALSE, startLine |-> 0]}
  \cup
  {a \in [hasIssue : {TRUE}, component : {"", "src/f.js"},
          hasLine : BOOLEAN, line : LineValues,
          hasRange : BOOLEAN, startLine : StartLineValues] :
     /\ (~a.hasLine => a.line = 0)
     /\ (~a.hasRange => a.startLine = 0)}

\* the issue object getIssueSource receives
IssueOf(a) ==
  IF ~a.hasIssue THEN NoIssue
  ELSE [key |-> "AX-1", component |-> a.component,
        line |-> IF a.hasLine THEN a.line ELSE 0,
        startLine |-> IF a.hasRange THEN a.startLine ELSE 0,
        severity |-> "MAJOR", msgLen |-> 10]

RawOutcomes(text) == {RawFail, RawEmpty, [ok |-> TRUE, data |-> text]}

ShowOutcomes(text) ==
  {ShowFail, ShowNoArray,
   [ok |-> TRUE, isArray |-> TRUE, codes |-> text],
   [ok |-> TRUE, isArray |-> TRUE, codes |-> << >>],
   [ok |-> TRUE, isArray |-> TRUE, codes |-> <<"">>]}

InitSrc ==
  /\ TuiOff
  /\ CfgOff
  /\ srcPc = "call"
  /\ srcIssue \in SrcArgs
  /\ \E n \in FileLens : srcText = FileText(n)
  /\ srcRaw = RawFail
  /\ srcShow = ShowFail
  /\ srcReqs = << >>
  /\ srcResult = NullSource

\* entry: the guard on the issue, then the sources/raw request is sent
SrcCall ==
  /\ srcPc = "call"
  /\ UNCHANGED <<tuiVars, cfgVars, srcIssue, srcText, srcRaw, srcShow>>
  /\ IF LacksComponent(IssueOf(srcIssue))
     THEN /\ srcPc' = "done"
          /\ srcResult' = getIssueSource(IssueOf(srcIssue), srcRaw, srcShow,
                                          DefaultContextLines)
          /\ UNCHANGED srcReqs
     ELSE /\ srcPc' = "raw"
          /\ srcReqs' = Append(srcReqs, "raw")
          /\ UNCHANGED srcResult

\* variant of RawThrew that also falls back on empty content
RawThrew_orEmpty(out) == ~out.ok \/ out.data = EmptyText

\* the inner catch runs: the sources/raw request threw
RawThrew(out) == ~out.ok

\* sources/raw settles; a failure sends the sources/show request
SrcRawReply(out) ==
  /\ srcPc = "raw"
  /\ UNCHANGED <<tuiVars, cfgVars, srcIssue, srcText, srcShow>>
  /\ srcRaw' = out
  /\ IF ~RawThrew(out)
     THEN /\ srcPc' = "done"
          /\ srcResult' = getIssueSource(IssueOf(srcIssue), out, srcShow,
                                          DefaultContextLines)
          /\ UNCHANGED srcReqs
     ELSE /\ srcPc' = "show"
          /\ srcReqs' = Append(srcReqs, "show")
          /\ UNCHANGED srcResult

\* sources/show settles
SrcShowReply(out) ==
  /\ srcPc = "show"
  /\ UNCHANGED <<tuiVars, cfgVars, srcIssue, srcText, srcRaw, srcReqs>>
  /\ srcShow' = out
  /\ srcPc' = "done"
  /\ srcResult' = getIssueSource(IssueOf(srcIssue), srcRaw, out,
                                  DefaultContextLines)

NextSrc ==
  \/ SrcCall
  \/ \E out \in RawOutcomes(srcText) : SrcRawReply(out)
  \/ \E out \in ShowOutcomes(srcText) : SrcShowReply(out)

SpecSrc == InitSrc /\ [][NextSrc]_vars

\* ------------------------------------------------------------------------
\* Configuration: loadConfig, buildRuntimeConfig and the printing commands
\* ------------------------------------------------------------------------
Fields == {"token", "project", "host", "branch"}

DefaultHost == "https://sonarqube.example.com"
Redacted == "***"

\* variant of envFiltered that keeps every entry
envFiltered_all(envConfig) == envConfig

\* Object.fromEntries(Object.entries(envConfig).filter(...))
envFiltered(envConfig) ==
  [k \in {x \in DOMAIN envConfig : envConfig[x] # Undefined
                                    /\ envConfig[x] # ""} |-> envConfig[k]]

\* if (opts.k) merged.k = opts.k
FlagOver(merged, opts, k) ==
  IF Truthy(Get(opts, k)) THEN Set(merged, k, opts[k]) ELSE merged

buildRuntimeConfig(configFromFile, envConfig, opts) ==
  LET merged == Spread(configFromFile, envFiltered(envConfig))
      m1 == FlagOver(merged, opts, "token")
      m2 == FlagOver(m1, opts, "project")
      m3 == FlagOver(m2, opts, "branch")
      m4 == FlagOver(m3, opts, "host")
      m5 == Set(m4, "json", Get(opts, "json"))
  IN IF ~Truthy(Get(m5, "host")) THEN Set(m5, "host", DefaultHost) ELSE m5

\* the merge of the print-config command
printConfigMerged(configFromFile, envConfig) ==
  Spread(configFromFile, envConfig)

\* values a layer can hold for a field; token and host also try the empty
\* string
FileValue == "a"
EnvValue == "b"
FlagValue == "c"

LayerValues(k, v) ==
  IF k \in {"token", "host"} THEN {Undefined, "", v} ELSE {Undefined, v}

\* config files: a key with the value undefined stands for a missing key
FileConfigs ==
  {Stringify(o) : o \in {c \in [Fields -> {Undefined, "", FileValue}] :
                          \A k \in Fields : c[k] \in LayerValues(k, FileValue)}}

\* loadConfig's envConfig: always the four keys
EnvConfigs ==
  {e \in [Fields -> {Undefined, "", EnvValue}] :
     \A k \in Fields : e[k] \in LayerValues(k, EnvValue)}

\* the options of metrics: the four fields and json (false by default)
MetricsOpts ==
  {o \in [Fields \cup {"json"} -> {Undefined, "", FlagValue, "false", "true"}] :
     /\ \A k \in Fields : o[k] \in LayerValues(k, FlagValue)
     /\ o["json"] \in {"false", "true"}}

\* print-config has no option for the four fields
PrintConfigOpts == {NoFields}

\* config show and config get have no option for the four fields either
ConfigCmdOpts == {NoFields}

\* the <key> argument of config get
ConfigKeys == Fields \cup {"other"}

\* the key=value arguments of config set tried, one of them without "="
PairValues == {"host=h", "project=p", "token=", "branch"}

\* config set takes one argument or more
PairArgs == {<<a>> : a \in PairValues}
              \cup {<<a, b>> : a \in PairValues, b \in PairValues}

InitCfg ==
  /\ TuiOff
  /\ SrcOff
  /\ cfgPc = "call"
  /\ cfgFile \in FileConfigs
  /\ cfgEnv \in EnvConfigs
  /\ \/ /\ cfgCmd = "print-config"
        /\ cfgFlags \in PrintConfigOpts
        /\ cfgKey = ""
        /\ cfgPairs = << >>
     \/ /\ cfgCmd = "metrics --print-config"
        /\ cfgFlags \in MetricsOpts
        /\ cfgKey = ""
        /\ cfgPairs = << >>
     \/ /\ cfgCmd = "config show"
        /\ cfgFlags \in ConfigCmdOpts
        /\ cfgKey = ""
        /\ cfgPairs = << >>
     \/ /\ cfgCmd = "config get"
        /\ cfgFlags \in ConfigCmdOpts
        /\ cfgKey \in ConfigKeys
        /\ cfgPairs = << >>
     \/ /\ cfgCmd = "config set"
        /\ cfgFlags \in ConfigCmdOpts
        /\ cfgKey = ""
        /\ cfgPairs \in PairArgs
  /\ CfgNothingDone

\* the object the command is about to print
MergedBy(cmd, configFromFile, envConfig, opts) ==
  IF cmd = "print-config" THEN printConfigMerged(configFromFile, envConfig)
  ELSE IF cmd = "metrics --print-config"
  THEN buildRuntimeConfig(configFromFile, envConfig, opts)
  ELSE configFromFile

\* the actions declared (_args, _opts, cmd) for a command without argument:
\* they are called with (options, command), cmd is undefined and
\* cmd.parent throws before loadConfig is reached
ActionThrows(cmd) == cmd = "config show"

\* the command loads the configuration and merges the layers, or ends on
\* the uncaught TypeError: nothing on standard output, exit code 1
CfgBuild ==
  /\ cfgPc = "call"
  /\ cfgCmd # "config set"
  /\ IF ActionThrows(cfgCmd)
     THEN /\ cfgPc' = "done"
          /\ cfgErr' = "TypeError"
          /\ cfgExit' = 1
          /\ UNCHANGED cfgMerged
     ELSE /\ cfgPc' = "built"
          /\ cfgMerged' = MergedBy(cfgCmd, cfgFile, cfgEnv, cfgFlags)
          /\ UNCHANGED <<cfgErr, cfgExit>>
  /\ UNCHANGED <<tuiVars, srcVars, cfgCmd, cfgFile, cfgEnv, cfgFlags, cfgOut,
                 cfgKey, cfgPairs, cfgLine, cfgReqs>>

\* if (out.token) out.token = "***"
Redact(out) ==
  IF Truthy(Get(out, "token")) THEN Set(out, "token", Redacted) ELSE out

\* print-config and metrics --print-config (and the body of config show,
\* which is never reached): the token is redacted and the object printed as
\* JSON
CfgPrint ==
  /\ cfgPc = "built"
  /\ cfgCmd # "config get"
  /\ cfgPc' = "done"
  /\ cfgOut' = Stringify(Redact(cfgMerged))
  /\ cfgExit' = 0
  /\ UNCHANGED <<tuiVars, srcVars, cfgCmd, cfgFile, cfgEnv, cfgFlags,
                 cfgMerged, cfgKey, cfgPairs, cfgLine, cfgErr, cfgReqs>>

\* the line config get prints for a key the file has
configGetLine(configFromFile, key) ==
  IF key = "token" THEN Redacted ELSE configFromFile[key]

\* config get <key>: the value of a key the file has, *** for the token;
\* exit code 1 and no output for a key the file lacks
CfgGet ==
  /\ cfgPc = "built"
  /\ cfgCmd = "config get"
  /\ cfgPc' = "done"
  /\ IF cfgKey \in DOMAIN cfgMerged
     THEN cfgLine' = configGetLine(cfgMerged, cfgKey) /\ cfgExit' = 0
     ELSE cfgLine' = "" /\ cfgExit' = 1
  /\ UNCHANGED <<tuiVars, srcVars, cfgCmd, cfgFile, cfgEnv, cfgFlags,
                 cfgMerged, cfgOut, cfgKey, cfgPairs, cfgErr, cfgReqs>>

\* pair.indexOf("="), counted from 1; 0 when there is none
IndexOfEq(pair) ==
  IF \E i \in 1..Len(pair) : SubSeq(pair, i, i) = "="
  THEN CHOOSE i \in 1..Len(pair) :
         /\ SubSeq(pair, i, i) = "="
         /\ \A j \in 1..(i - 1) : SubSeq(pair, j, j) # "="
  ELSE 0

\* pair.slice(0, idx) and pair.slice(idx + 1)
PairKey(pair) == SubSeq(pair, 1, IndexOfEq(pair) - 1)
PairValue(pair) == SubSeq(pair, IndexOfEq(pair) + 1, Len(pair))

\* some pair has no "=": the loop exits with 1 before anything is written
InvalidFormat(pairs) == \E i \in DOMAIN pairs : IndexOfEq(pairs[i]) = 0

\* updates[key] = value for each pair in order
RECURSIVE Updates(_)
Updates(pairs) ==
  IF pairs = << >> THEN NoFields
  ELSE LET last == pairs[Len(pairs)]
       IN Set(Updates(SubSeq(pairs, 1, Len(pairs) - 1)),
              PairKey(last), PairValue(last))

\* writeConfig: { ...current, ...data } written as JSON
writeConfig(current, data) == Stringify(Spread(current, data))

\* config set <kv...>: the pairs are merged into the file and the path is
\* printed; a pair without "=" ends the command with exit code 1
CfgSet ==
  /\ cfgPc = "call"
  /\ cfgCmd = "config set"
  /\ cfgPc' = "done"
  /\ IF InvalidFormat(cfgPairs)
     THEN /\ cfgErr' = "Invalid format"
          /\ cfgExit' = 1
          /\ UNCHANGED <<cfgFile, cfgLine>>
     ELSE /\ cfgFile' = writeConfig(cfgFile, Updates(cfgPairs))
          /\ cfgLine' = "Updated"
          /\ cfgExit' = 0
          /\ UNCHANGED cfgErr
  /\ UNCHANGED <<tuiVars, srcVars, cfgCmd, cfgEnv, cfgFlags, cfgMerged,
                 cfgOut, cfgKey, cfgPairs, cfgReqs>>

NextCfg == CfgBuild \/ CfgPrint \/ CfgGet \/ CfgSet

SpecCfg == InitCfg /\ [][NextCfg]_vars

\* ------------------------------------------------------------------------
\* The commands that send authenticated requests
\* ------------------------------------------------------------------------
ProjectCommands ==
  {"metrics", "issues", "issues:summary", "hotspots", "quality-gate"}

KeyCommands ==
  {"issue", "hotspot", "rule", "measures", "measures:history",
   "component-tree", "duplications"}

RequestCommands ==
  ProjectCommands \cup KeyCommands \cup {"rules", "quality-profiles"}

\* variant of RequiresProject in which no command tests the project
RequiresProject_none(cmd) == FALSE

\* the commands with an `if (!cfg.project)` test at entry
RequiresProject(cmd) == cmd \in ProjectCommands

\* the commands with a test of their key, component or file argument
RequiresKey(cmd) == cmd \in KeyCommands

\* the commands declaring --project
HasProjectOption(cmd) ==
  cmd \in ProjectCommands \cup {"duplications", "quality-profiles"}

\* the commands whose request carries the project; fetchDuplications takes
\* the project and leaves it out of the request
PassesProject(cmd) == cmd \in ProjectCommands \cup {"quality-profiles"}

\* the path of a command's first request
FirstPath(cmd) ==
  CASE cmd = "metrics" -> "/api/qualitygates/project_status"
    [] cmd = "issues" -> "/api/issues/search"
    [] cmd = "issues:summary" -> "/api/issues/search"
    [] cmd = "issue" -> "/api/issues/show"
    [] cmd = "hotspots" -> "/api/hotspots/search"
    [] cmd = "hotspot" -> "/api/hotspots/show"
    [] cmd = "rules" -> "/api/rules/search"
    [] cmd = "rule" -> "/api/rules/show"
    [] cmd = "measures" -> "/api/measures/component"
    [] cmd = "measures:history" -> "/api/measures/search_history"
    [] cmd = "component-tree" -> "/api/components/tree"
    [] cmd = "duplications" -> "/api/duplications/show"
    [] cmd = "quality-profiles" -> "/api/qualityprofiles/search"
    [] cmd = "quality-gate" -> "/api/qualitygates/project_status"

\* an authenticated request as apiRequest receives it
Request(path, cfg, cmd) ==
  [path |-> path, token |-> Get(cfg, "token"), host |-> Get(cfg, "host"),
   project |-> IF PassesProject(cmd) THEN Get(cfg, "project")
               ELSE Undefined]

\* opts.json: metrics declares --json with the default false, the other
\* commands without a default
JsonValues(cmd) == IF cmd = "metrics" THEN {"false", "true"}
                   ELSE {Undefined, "true"}

\* the options tried: the token flag, the project flag where declared, and
\* --json
CommandOpts(cmd) ==
  {o \in [Fields \cup {"json"}
             -> {Undefined, "", FlagValue, "false", "true"}] :
     /\ o["token"] \in LayerValues("token", FlagValue)
     /\ o["project"] \in (IF HasProjectOption(cmd)
                           THEN LayerValues("project", FlagValue)
                           ELSE {Undefined})
     /\ o["host"] = Undefined
     /\ o["branch"] = Undefined
     /\ o["json"] \in JsonValues(cmd)}

\* the key, component or file argument: given, or the empty string
KeyArgs(cmd) == IF RequiresKey(cmd) THEN {"", "KEY-1"} ELSE {""}

InitCmd ==
  /\ TuiOff
  /\ SrcOff
  /\ cfgPc = "call"
  /\ cfgFile \in FileConfigs
  /\ cfgEnv \in EnvConfigs
  /\ cfgCmd \in RequestCommands
  /\ cfgFlags \in CommandOpts(cfgCmd)
  /\ cfgKey \in KeyArgs(cfgCmd)
  /\ cfgPairs = << >>
  /\ CfgNothingDone

\* the handlers declared (opts, key) for a command with a <key> argument:
\* the action is called with (key, options, command), so their opts is the
\* key string and their key the options object
SwappedHandlers == {"issue", "hotspot", "rule"}

\* what the handler passes to buildRuntimeConfig as opts: a string has none
\* of the option properties
HandlerOpts(cmd, opts) == IF cmd \in SwappedHandlers THEN NoFields ELSE opts

\* the key the handler tests: typeof key === 'string' ? key : (Array.isArray(key)
\* ? key[0] : undefined) is undefined for the options object; "" stands for
\* every falsy key
HandlerKey(cmd, key) == IF cmd \in SwappedHandlers THEN "" ELSE key

\* const cfg = buildRuntimeConfig(opts) of the handler
HandlerConfig(cmd, configFromFile, envConfig, opts) ==
  buildRuntimeConfig(configFromFile, envConfig, HandlerOpts(cmd, opts))

\* the message of the entry test that fails, "" when all pass; cfg is the
\* handler's configuration and key the argument given on the command line
EntryError(cmd, cfg, key) ==
  IF ~Truthy(Get(cfg, "token")) THEN "Missing token"
  ELSE IF RequiresProject(cmd) /\ ~Truthy(Get(cfg, "project"))
  THEN "Missing project"
  ELSE IF RequiresKey(cmd) /\ HandlerKey(cmd, key) = "" THEN "key required"
  ELSE ""

\* the command up to its first await: buildRuntimeConfig, the entry tests,
\* then the first request
CmdEntry ==
  /\ cfgPc = "call"
  /\ LET cfg == HandlerConfig(cfgCmd, cfgFile, cfgEnv, cfgFlags)
         err == EntryError(cfgCmd, cfg, cfgKey)
     IN /\ cfgMerged' = cfg
        /\ cfgErr' = err
        /\ IF err # ""
           THEN /\ cfgPc' = "done"
                /\ cfgExit' = 1
                /\ UNCHANGED cfgReqs
           ELSE /\ cfgPc' = "requested"
                /\ cfgReqs' = <<Request(FirstPath(cfgCmd), cfg, cfgCmd)>>
                /\ UNCHANGED cfgExit
  /\ UNCHANGED <<tuiVars, srcVars, cfgCmd, cfgFile, cfgEnv, cfgFlags, cfgOut,
                 cfgKey, cfgPairs, cfgLine>>

\* the path of the request metrics sends after n answered ones, "" if none
MetricsNextPath(n, cfg) ==
  IF n = 1 THEN "/api/measures/component"
  ELSE IF n = 2 /\ ~Truthy(Get(cfg, "branch"))
  THEN "/api/project_branches/list"
  ELSE ""

\* the pending request settles: the command sends its next request, prints
\* its report and ends, or reports the failure and exits with 1
CmdReply(ok) ==
  /\ cfgPc = "requested"
  /\ LET n == Len(cfgReqs)
         next == IF cfgCmd = "metrics" THEN MetricsNextPath(n, cfgMerged)
                 ELSE ""
         swallowed == cfgCmd = "metrics" /\ n = 3
     IN IF ~ok /\ ~swallowed
        THEN /\ cfgPc' = "done"
             /\ cfgErr' = "Error"
             /\ cfgExit' = 1
             /\ UNCHANGED <<cfgReqs, cfgLine>>
        ELSE IF next # ""
        THEN /\ cfgReqs' = Append(cfgReqs, Request(next, cfgMerged, cfgCmd))
             /\ UNCHANGED <<cfgPc, cfgErr, cfgExit, cfgLine>>
        ELSE /\ cfgPc' = "done"
             /\ cfgLine' = "report"
             /\ cfgExit' = 0
             /\ UNCHANGED <<cfgReqs, cfgErr>>
  /\ UNCHANGED <<tuiVars, srcVars, cfgCmd, cfgFile, cfgEnv, cfgFlags,
                 cfgMerged, cfgOut, cfgKey, cfgPairs>>

NextCmd == CmdEntry \/ \E ok \in BOOLEAN : CmdReply(ok)

SpecCmd == InitCmd /\ [][NextCmd]_vars

\* ------------------------------------------------------------------------
\* Properties
\* ------------------------------------------------------------------------
Range(sq) == {sq[i] : i \in DOMAIN sq}

\* C1: a resolved snippet fetch whose sequence number is no longer the
\* latest render sequence number leaves the code pane untouched, and every
\* write to the code pane carries the latest render sequence number.
C1_StaleResultNeverApplied ==
  [][/\ \A f \in fetches :
          (f \notin fetches' /\ f.seq # renderSeq) => code' = code
     /\ (code' # code => code'.seq = renderSeq')]_vars

\* the fetch issued first resolved after the later one had been applied,
\* and the pane still shows the later one's result
C1_Witness ==
  /\ ev.op = "snippet"
  /\ ev.n < renderSeq
  /\ code.kind = "snippet"
  /\ code.seq = renderSeq

\* C2: every confirm (enter) on the issue list issues a snippet fetch, also
\* on the index rendered last.
C2_ConfirmAlwaysFetches ==
  (ev.op = "enter" /\ Len(issues) >= 1) => ev.fetched

\* C3: 'r' issues a snippet fetch for the selected issue and increments
\* the render sequence counter.
C3_RefreshRefetches ==
  (ev.op = "r" /\ Len(issues) >= 1) =>
     (ev.fetched /\ renderSeq = ev.n + 1)

\* C4: a successful branch choice returning a non-empty list renders the
\* new issues[0]: detail pane rewritten, snippet fetch issued.
C4_BranchChoiceRenders ==
  (ev.op = "refetchOk" /\ Len(issues) >= 1) =>
     /\ ev.fetched
     /\ detail.key = issues[1]
     /\ code = Loading(Issue(issues[1]), renderSeq)

\* C5: after a successful branch choice the issue list is exactly the list
\* the refetch returned for the chosen branch, the rows are built from it
\* and the selection is 0.
C5_ListReplaced ==
  ev.op = "refetchOk" =>
     /\ issues = Slice(ServerIssues(ev.b), choices[ev.n].limit)
     /\ Range(issues) \subseteq Range(ServerIssues(ev.b))
     /\ items = Rows(issues)
     /\ selected = 0

\* C5 amended: after a successful branch choice the issue list is exactly
\* the list the refetch returned, the rows are rebuilt from it, and the
\* selected index is 0 whenever that list has at least one issue (with no
\* issue the selected index is undefined)
C5_ListReplacedSelectionReset ==
  ev.op = "refetchOk" =>
     /\ issues = Slice(ServerIssues(ev.b), choices[ev.n].limit)
     /\ Range(issues) \subseteq Range(ServerIssues(ev.b))
     /\ items = Rows(issues)
     /\ Len(issues) > 0 => selected = 0

\* a switch to the branch without issues: the list is replaced by the empty
\* list, no row is left, and the selected index is not a row of the list
C5_EmptyListReplaced ==
  /\ ev.op = "refetchOk"
  /\ ev.b = "clean"
  /\ issues = << >>
  /\ items = << >>
  /\ selected \in EmptySelections

\* the list of main was replaced by the list of develop
C5_Witness ==
  /\ ev.op = "refetchOk"
  /\ ev.b = "develop"
  /\ branch = "main"
  /\ issues = <<"d1", "d2">>
  /\ items = Rows(issues)
  /\ selected = 0

\* C6: once the refetches of all branch choices have succeeded, the list
\* and its label are those of the choice made last.
C6_LaterChoiceWins ==
  (Len(choices) >= 2 /\ \A i \in DOMAIN choices : choices[i].outcome = "ok")
    => /\ label.branch = choices[Len(choices)].chosen
       /\ Range(issues) \subseteq
            Range(ServerIssues(choices[Len(choices)].chosen))

\* C7: a render that issues a fetch shows the loading text at once, and
\* with no fetch in flight the code pane shows a snippet or "(no snippet)".
C7_CodePaneSettles ==
  /\ ev.fetched => (code.kind = "loading" /\ code.seq = renderSeq)
  /\ (phase = "running" /\ fetches = {}) =>
        code.kind \in {"snippet", "nosnippet"}

\* C8: after a failed branch refetch the status line shows something other
\* than the plain help text.
C8_FailureShown == ev.op = "refetchFail" => status # Help

\* C9: the handler of a branch choice whose refetch fails changes neither
\* the issue list, the rows, the selection, lastRendered nor renderSeq,
\* neither when the choice is made nor when the failure arrives.
C9_FailureKeepsState ==
  [][ev'.op \in {"boxSelect", "refetchFail"} =>
       UNCHANGED <<issues, items, selected, lastRendered, renderSeq>>]_vars

\* a refetch has failed and the session goes on with a non-empty list
C9_Witness ==
  /\ ev.op = "refetchFail"
  /\ phase = "running"
  /\ Len(issues) >= 1
  /\ items = Rows(issues)

\* C10: when the branch-list fetch fails or returns no branches, no picker
\* is opened, the status line shows "no branches", and issue list,
\* selection, lastRendered and renderSeq are unchanged by 'b'.
C10_NoBranchesNoPicker ==
  [][/\ ev'.op = "b" =>
          UNCHANGED <<issues, selected, lastRendered, renderSeq, openBoxes>>
     /\ (ev'.op = "branches" /\ ev'.b \in {"fail", "empty"}) =>
          /\ UNCHANGED <<issues, selected, lastRendered, renderSeq,
                         openBoxes, focus>>
          /\ status' = HelpNoBranches]_vars

\* the branch-list request failed: no picker, "no branches" shown
C10_Witness ==
  /\ ev.op = "branches"
  /\ ev.b = "fail"
  /\ openBoxes = {}
  /\ status = HelpNoBranches

\* C11: a navigation key that leaves the selection on the index rendered
\* last issues no snippet fetch and leaves renderSeq, the detail pane and
\* the code pane as they were.
C11_NavOnRenderedIndexIsNoOp ==
  [][(ev'.op = "nav" /\ selected' = lastRendered) =>
       UNCHANGED <<renderSeq, lastRendered, detail, code, fetches>>]_vars

\* up was pressed on the first row of a list whose index 0 is rendered
C11_Witness ==
  /\ ev.op = "nav"
  /\ ~ev.fetched
  /\ Len(issues) >= 1
  /\ selected = lastRendered
  /\ renderSeq = ev.n
  /\ code.kind # "blank"

\* C12: every suspended render can resume on its own as soon as its fetch
\* resolves, and its resumption runs the handler to its end (its own fetch
\* gone, the caller's statements after the render done); while fetches are
\* pending every key is still handled, so no state of a running session is
\* a deadlock.
C12_SuspendedHandlersResume ==
  /\ [](phase = "running" =>
          /\ \A f \in fetches : ENABLED SnippetResolve(f, RawFail, ShowFail)
          /\ keys < MaxKeys =>
               /\ ENABLED KeyQuit
               /\ ENABLED KeyHelp
               /\ ENABLED KeyB
               /\ ENABLED KeyR
               /\ focus = 0 =>
                    /\ ENABLED KeyEnter
                    /\ ENABLED KeyNav(1)
                    /\ ENABLED KeyNav(0 - 1))
  /\ [][\A f \in fetches :
          f \notin fetches' =>
            /\ fetches' = fetches \ {f}
            /\ f.tail > 0 => (f.tail \notin openBoxes' /\ focus' = 0)
            /\ f.tail = TailStartup => (destroyHook' /\ focus' = 0)]_vars

\* after three renders were started in quick succession one of the
\* suspended handlers has resumed while others are still suspended
C12_Witness ==
  /\ ev.op = "snippet"
  /\ renderSeq >= 3
  /\ Cardinality(fetches) >= 2

\* C13: in every state of a running session q / Ctrl-C is handled; when
\* the process has exited the screen has been destroyed, and nothing
\* changes after the exit.
C13_QuitReleasesScreen ==
  /\ []((phase = "running" /\ keys < MaxKeys) => ENABLED KeyQuit)
  /\ [](phase = "exited" => screenDestroyed)
  /\ [][ev'.op = "quit" => (screenDestroyed' /\ phase' = "exited")]_vars
  /\ [][phase = "exited" => UNCHANGED vars]_vars

\* quit was pressed with a snippet fetch and a branch request in flight
C13_Witness ==
  /\ phase = "exited"
  /\ screenDestroyed
  /\ fetches # {}
  /\ branchReqs # {}

\* quit pressed with a picker open and a branch refetch in flight
C13_WitnessPicker ==
  /\ phase = "exited"
  /\ screenDestroyed
  /\ openBoxes # {}
  /\ \E i \in DOMAIN choices : choices[i].outcome = "pending"

\* C14: called with an empty issue list, browseIssuesTui prints
\* "No issues." and returns: no rows, no pane content, no status line, no
\* render, no request of any kind, and no handler ever runs afterwards.
C14_EmptyListOnlyPrints ==
  /\ []((Len(issues) = 0 /\ choices = << >> /\ phase # "entry") =>
          phase = "empty")
  /\ [](phase = "empty" =>
          /\ ev = Event("start", 0, FALSE, NoIssuesText)
          /\ items = << >>
          /\ detail = NoDetail
          /\ code = Blank
          /\ status = ""
          /\ renderSeq = 0
          /\ lastRendered = 0 - 1
          /\ fetches = {}
          /\ branchReqs = {}
          /\ bPressed = 0
          /\ openBoxes = {}
          /\ choices = << >>
          /\ keys = 0
          /\ ~destroyHook)
  /\ [][phase = "empty" => UNCHANGED vars]_vars

\* browseIssuesTui has returned after printing the message
C14_Witness ==
  /\ phase = "empty"
  /\ Len(issues) = 0
  /\ ev.op = "start"
  /\ ev.b = NoIssuesText

\* the call retrieved the whole file srcText, by either endpoint
SrcGotFile ==
  /\ srcPc = "done"
  /\ \/ srcReqs = <<"raw">> /\ srcRaw = [ok |-> TRUE, data |-> srcText]
     \/ /\ srcReqs = <<"raw", "show">>
        /\ srcShow = [ok |-> TRUE, isArray |-> TRUE, codes |-> srcText]

\* the focus value the issue carries: line, or textRange.startLine when the
\* issue has no line; 0 when it carries none
SrcFocusValue ==
  IF srcIssue.hasLine THEN srcIssue.line
  ELSE IF srcIssue.hasRange THEN srcIssue.startLine ELSE 0

SrcHasFocusValue == srcIssue.hasLine \/ srcIssue.hasRange

\* the snippet is one rendered line per line number of start..end, ascending,
\* each with the file's text, and only line f carries the marker
SrcSnippetIsWindow(f) ==
  /\ Len(srcResult.snippet) = srcResult.end - srcResult.start + 1
  /\ \A i \in DOMAIN srcResult.snippet :
       /\ srcResult.snippet[i].ln = srcResult.start + i - 1
       /\ srcResult.snippet[i].text = srcText[srcResult.start + i - 1]
       /\ (srcResult.snippet[i].marker = ">") = (srcResult.snippet[i].ln = f)

\* C15: with the file retrieved and a focus line F in 1..L, the result has
\* start = max(1, F-5), end = min(L, F+5), focus = F, one rendered line per
\* line number of the window in ascending order, the marker on line F only;
\* F = 1 starts at 1, F = L ends at L, line 42 of 100 lines gives [37, 47]
C15_WindowAroundFocus ==
  (/\ SrcGotFile
   /\ SrcHasFocusValue
   /\ SrcFocusValue >= 1
   /\ SrcFocusValue <= Len(srcText))
  => /\ ~srcResult.isNull
     /\ srcResult.hasWindow
     /\ srcResult.start = Max(1, SrcFocusValue - 5)
     /\ srcResult.end = Min(Len(srcText), SrcFocusValue + 5)
     /\ srcResult.focus = SrcFocusValue
     /\ SrcSnippetIsWindow(SrcFocusValue)
     /\ (SrcFocusValue = 1 => srcResult.start = 1)
     /\ (SrcFocusValue = Len(srcText) => srcResult.end = Len(srcText))
     /\ ((SrcFocusValue = 42 /\ Len(srcText) = 100)
           => srcResult.start = 37 /\ srcResult.end = 47)

C15_Witness ==
  /\ SrcGotFile
  /\ srcIssue.hasLine /\ ~srcIssue.hasRange
  /\ srcIssue.line = 42
  /\ Len(srcText) = 100
  /\ srcResult.start = 37 /\ srcResult.end = 47
  /\ Len(srcResult.snippet) = 11
  /\ srcResult.snippet[6].marker = ">"

\* C16: with the file retrieved and a focus value below 1 (zero or negative),
\* the result has a window that starts at line 1 with the marker on line 1
C16_BelowOneClampsToLineOne ==
  (/\ SrcGotFile
   /\ SrcHasFocusValue
   /\ SrcFocusValue < 1)
  => /\ ~srcResult.isNull
     /\ srcResult.hasWindow
     /\ srcResult.start = 1
     /\ srcResult.focus = 1
     /\ SrcSnippetIsWindow(1)
     /\ Len(srcResult.snippet) >= 1

\* the part of C16 the code does keep: negative values clamp to line 1
C16_NegativeClamps ==
  (/\ SrcGotFile
   /\ SrcHasFocusValue
   /\ SrcFocusValue < 0)
  => /\ srcResult.hasWindow
     /\ srcResult.start = 1
     /\ srcResult.focus = 1
     /\ SrcSnippetIsWindow(1)

\* a line of 0 with no textRange: content, but no window
C16_ZeroLineNoWindow ==
  /\ SrcGotFile
  /\ srcIssue.hasLine /\ srcIssue.line = 0 /\ ~srcIssue.hasRange
  /\ ~srcResult.isNull
  /\ ~srcResult.hasWindow
  /\ srcResult.snippet = << >>

\* a line of 0 next to textRange.startLine = 3: the window is put around 3
C16_ZeroLineUsesRange ==
  /\ SrcGotFile
  /\ srcIssue.hasLine /\ srcIssue.line = 0
  /\ srcIssue.hasRange /\ srcIssue.startLine = 3
  /\ srcResult.focus = 3

\* sources/raw failed and sources/show answered with an array
SrcFellBackToArray ==
  /\ srcPc = "done"
  /\ srcReqs = <<"raw", "show">>
  /\ ~srcRaw.ok
  /\ srcShow.ok /\ srcShow.isArray

\* every call ends with a value: each request outcome is taken by a step,
\* and the value is null or a result with content
SrcAlwaysReturns ==
  /\ (srcPc = "call" => ENABLED SrcCall)
  /\ (srcPc = "raw" => \A out \in RawOutcomes(srcText) :
                          ENABLED SrcRawReply(out))
  /\ (srcPc = "show" => \A out \in ShowOutcomes(srcText) :
                           ENABLED SrcShowReply(out))
  /\ (srcPc = "done" =>
        \/ srcResult = NullSource
        \/ ~srcResult.isNull /\ srcResult.content # EmptyText)

\* C17 as stated: after a failed sources/raw, a non-empty array of records
\* from sources/show gives a non-null result whose content is the records'
\* code joined in order; both requests failing gives null; a value is always
\* returned
C17_FallbackNonEmptyArray ==
  /\ (SrcFellBackToArray /\ srcShow.codes # << >>)
       => ~srcResult.isNull /\ srcResult.content = srcShow.codes
  /\ (srcPc = "done" /\ srcReqs = <<"raw", "show">>
        /\ ~srcRaw.ok /\ ~srcShow.ok) => srcResult.isNull
  /\ SrcAlwaysReturns

\* C17 amended: after a failed sources/raw, an array of records from
\* sources/show whose joined code is not the empty text gives a non-null
\* result with that text as content; an array whose joined code is empty
\* (no record, or one record with empty code) gives null; both requests
\* failing gives null; a value is always returned
C17_FallbackNonEmptyText ==
  /\ (SrcFellBackToArray /\ srcShow.codes # << >>
        /\ srcShow.codes # <<"">>)
       => ~srcResult.isNull /\ srcResult.content = srcShow.codes
  /\ (SrcFellBackToArray /\ srcShow.codes \in {<< >>, <<"">>})
       => srcResult.isNull
  /\ (srcPc = "done" /\ srcReqs = <<"raw", "show">>
        /\ ~srcRaw.ok /\ ~srcShow.ok) => srcResult.isNull
  /\ SrcAlwaysReturns

C17_Witness ==
  /\ SrcFellBackToArray
  /\ Len(srcShow.codes) >= 3
  /\ ~srcResult.isNull
  /\ srcResult.content = srcShow.codes
  /\ srcResult.hasWindow

\* C18: with no issue, or an issue without component, the call returns null
\* and no request is ever sent
C18_NoComponentNoRequest ==
  (srcPc # "off" /\ (~srcIssue.hasIssue \/ srcIssue.component = ""))
  => /\ srcReqs = << >>
     /\ srcPc \in {"call", "done"}
     /\ (srcPc = "done" => srcResult = NullSource)

C18_Witness ==
  /\ srcPc = "done"
  /\ srcIssue.hasIssue /\ srcIssue.component = "" /\ srcIssue.hasLine
  /\ srcResult.isNull
  /\ srcReqs = << >>

C18_WitnessNoIssue ==
  /\ srcPc = "done"
  /\ ~srcIssue.hasIssue
  /\ srcResult.isNull
  /\ srcReqs = << >>

\* buildRuntimeConfig has run for this command
CfgBuilt == cfgCmd = "metrics --print-config" /\ cfgPc \in {"built", "done"}

CfgFlag(k) == Get(cfgFlags, k)
CfgEnvVar(k) == Get(cfgEnv, k)
CfgFileVal(k) == Get(cfgFile, k)

\* C19 as stated: each field resolves to the flag when supplied, otherwise
\* to the environment variable when set and non-empty, otherwise to the
\* file value (the placeholder host standing in for a host no layer gives)
C19_FlagEnvFile ==
  CfgBuilt =>
    \A k \in Fields :
      Get(cfgMerged, k) =
        IF CfgFlag(k) # Undefined THEN CfgFlag(k)
        ELSE IF Truthy(CfgEnvVar(k)) THEN CfgEnvVar(k)
        ELSE IF k = "host" /\ ~Truthy(CfgFileVal(k)) THEN DefaultHost
        ELSE CfgFileVal(k)

\* C19 amended: each field resolves to the flag when supplied and non-empty,
\* otherwise to the environment variable when set and non-empty, otherwise
\* to the file value; a host that comes out empty or missing becomes the
\* placeholder host; a layer without a non-empty value for a field leaves
\* the lower layer's value in place
C19_NonEmptyFlagEnvFile ==
  CfgBuilt =>
    \A k \in Fields :
      /\ Get(cfgMerged, k) =
           IF Truthy(CfgFlag(k)) THEN CfgFlag(k)
           ELSE IF Truthy(CfgEnvVar(k)) THEN CfgEnvVar(k)
           ELSE IF k = "host" /\ ~Truthy(CfgFileVal(k)) THEN DefaultHost
           ELSE CfgFileVal(k)
      /\ (Truthy(CfgFileVal(k)) /\ ~Truthy(CfgEnvVar(k))
            /\ ~Truthy(CfgFlag(k))) => Get(cfgMerged, k) = CfgFileVal(k)
      /\ (Truthy(CfgEnvVar(k)) /\ ~Truthy(CfgFlag(k)))
            => Get(cfgMerged, k) = CfgEnvVar(k)
      /\ ((k = "token" /\ CfgFileVal(k) = "a" /\ CfgEnvVar(k) = "b")
            => Get(cfgMerged, k) = (IF CfgFlag(k) = "c" THEN "c" ELSE "b"))

\* file {token: a}, env {token: b}, flag {token: c} resolved to c
C19_Witness ==
  /\ CfgBuilt
  /\ CfgFileVal("token") = "a"
  /\ CfgEnvVar("token") = "b"
  /\ CfgFlag("token") = "c"
  /\ Get(cfgMerged, "token") = "c"
  /\ CfgFileVal("project") = "a"
  /\ CfgEnvVar("project") = Undefined
  /\ CfgFlag("project") = Undefined
  /\ Get(cfgMerged, "project") = "a"

\* a flag given as the empty string does not win over the environment
C19_EmptyFlagFallsThrough ==
  /\ CfgBuilt
  /\ CfgFlag("token") = ""
  /\ CfgEnvVar("token") = "b"
  /\ Get(cfgMerged, "token") = "b"

\* what metrics --print-config prints for a file and an environment
MetricsPrinted(file, env) ==
  Stringify(Redact(buildRuntimeConfig(file, env, [json |-> "false"])))

\* C20: print-config prints every key of the file whose environment
\* variable is unset, with the file's value (token redacted), and prints the
\* same fields as metrics --print-config for the same file and environment
C20_PrintConfigFallsThrough ==
  (cfgCmd = "print-config" /\ cfgPc = "done") =>
    /\ \A k \in Fields :
         (k \in DOMAIN cfgFile /\ cfgEnv[k] = Undefined) =>
           /\ k \in DOMAIN cfgOut
           /\ cfgOut[k] = IF k = "token" /\ Truthy(cfgFile[k])
                           THEN Redacted ELSE cfgFile[k]
    /\ \A k \in Fields :
         (k \in DOMAIN cfgOut) = (k \in DOMAIN MetricsPrinted(cfgFile, cfgEnv))

\* the first half of C20 alone
C20_FileKeysPrinted ==
  (cfgCmd = "print-config" /\ cfgPc = "done") =>
    \A k \in Fields :
      (k \in DOMAIN cfgFile /\ cfgEnv[k] = Undefined) => k \in DOMAIN cfgOut

\* file {token: a, project: a}, nothing in the environment: nothing printed
C20_FileDropped ==
  /\ cfgCmd = "print-config" /\ cfgPc = "done"
  /\ CfgFileVal("token") = "a" /\ CfgFileVal("project") = "a"
  /\ \A k \in Fields : cfgEnv[k] = Undefined
  /\ cfgOut = NoFields
  /\ MetricsPrinted(cfgFile, cfgEnv)["token"] = Redacted
  /\ MetricsPrinted(cfgFile, cfgEnv)["project"] = "a"

\* what metrics --print-config prints is what MetricsPrinted says, flags
\* aside
C20_MetricsPrintsMerged ==
  (cfgCmd = "metrics --print-config" /\ cfgPc = "done"
    /\ \A k \in Fields : cfgFlags[k] = Undefined)
  => \A k \in Fields :
       Get(cfgOut, k) = Get(MetricsPrinted(cfgFile, cfgEnv), k)

\* the same layer with a non-empty token replaced by another secret
MaskToken(o) ==
  IF Truthy(Get(o, "token")) THEN Set(o, "token", "another-secret") ELSE o

CfgPrintsJson ==
  cfgPc = "done" /\ cfgCmd \in {"print-config", "metrics --print-config"}

\* print-config and metrics --print-config print *** for a non-empty token
\* and every other field as it is in the merged object, and the output is
\* the same when every non-empty token of the inputs is another value
CfgJsonRedacted ==
  CfgPrintsJson =>
    /\ Truthy(Get(cfgMerged, "token"))
         => Get(cfgOut, "token") = Redacted
    /\ \A k \in DOMAIN cfgMerged \ {"token"} :
         Get(cfgOut, k) = cfgMerged[k]
    /\ \A k \in DOMAIN cfgOut : Get(cfgMerged, k) # Undefined
    /\ cfgOut = Stringify(Redact(MergedBy(cfgCmd, MaskToken(cfgFile),
                                          MaskToken(cfgEnv),
                                          MaskToken(cfgFlags))))

\* config get prints *** for the key token, the stored value for another
\* stored key, and the line is the same when the stored token is another
\* value
CfgGetRedacted ==
  (cfgPc = "done" /\ cfgCmd = "config get") =>
    /\ (cfgKey = "token" /\ "token" \in DOMAIN cfgFile)
         => cfgLine = Redacted /\ cfgExit = 0
    /\ (cfgKey # "token" /\ cfgKey \in DOMAIN cfgFile)
         => cfgLine = cfgFile[cfgKey] /\ cfgExit = 0
    /\ cfgKey \notin DOMAIN cfgFile => cfgLine = "" /\ cfgExit = 1
    /\ cfgKey \in DOMAIN cfgFile
         => cfgLine = configGetLine(MaskToken(cfgFile), cfgKey)
    /\ cfgOut = NoFields

\* config show prints the stored object with *** for a non-empty token and
\* every other stored field as it is
CfgShowRedacted ==
  (cfgPc = "done" /\ cfgCmd = "config show") =>
    /\ Truthy(Get(cfgFile, "token")) => Get(cfgOut, "token") = Redacted
    /\ \A k \in DOMAIN cfgFile \ {"token"} : Get(cfgOut, k) = Get(cfgFile, k)
    /\ cfgExit = 0

\* C21: print-config, metrics --print-config and config show print *** for
\* a non-empty token and every other field unchanged; config get token
\* prints ***; the output is the same when every non-empty token of the
\* file, the environment and the flags is another value
C21_TokenRedacted == CfgJsonRedacted /\ CfgGetRedacted /\ CfgShowRedacted

\* the part of C21 about print-config, metrics --print-config and
\* config get, which holds
C21_RedactedWherePrinted == CfgJsonRedacted /\ CfgGetRedacted

\* metrics --print-config with the token given by flag, file and
\* environment: *** printed, the project printed as it is
C21_MetricsRedacts ==
  /\ cfgPc = "done"
  /\ cfgCmd = "metrics --print-config"
  /\ CfgFlag("token") = "c"
  /\ CfgFileVal("token") = "a"
  /\ CfgEnvVar("token") = "b"
  /\ cfgOut["token"] = Redacted
  /\ CfgEnvVar("project") = "b"
  /\ cfgOut["project"] = "b"

\* config show with a stored token and host: the action throws, nothing is
\* printed, exit code 1
C21_ConfigShowThrows ==
  /\ cfgPc = "done"
  /\ cfgCmd = "config show"
  /\ CfgFileVal("token") = "a"
  /\ CfgFileVal("host") = "a"
  /\ cfgOut = NoFields
  /\ cfgLine = ""
  /\ cfgErr = "TypeError"
  /\ cfgExit = 1

\* no run of config show prints anything
C21_ConfigShowPrintsNothing ==
  cfgCmd = "config show" => cfgOut = NoFields /\ cfgLine = "" /\ cfgExit # 0

C21_WitnessConfigGet ==
  /\ cfgPc = "done"
  /\ cfgCmd = "config get"
  /\ cfgKey = "token"
  /\ CfgFileVal("token") = "a"
  /\ cfgLine = Redacted

C21_WitnessPrintConfig ==
  /\ cfgPc = "done"
  /\ cfgCmd = "print-config"
  /\ CfgEnvVar("token") = "b"
  /\ cfgOut["token"] = Redacted

\* the configuration resolved from the file, the environment and the flags
\* of the run
Resolved == buildRuntimeConfig(cfgFile, cfgEnv, cfgFlags)

CmdOutputEmpty == cfgLine = "" /\ cfgOut = NoFields

\* C22 as stated: for every command, a request is sent only with a non-empty
\* resolved token and a non-empty resolved project; when either is missing
\* the command ends at entry with an error message, exit code 1, no request
\* and no output
C22_TokenAndProjectBeforeRequest ==
  /\ cfgReqs # << >>
       => Truthy(Get(Resolved, "token")) /\ Truthy(Get(Resolved, "project"))
  /\ (cfgPc # "call" /\ ~(Truthy(Get(Resolved, "token"))
                            /\ Truthy(Get(Resolved, "project"))))
       => /\ cfgPc = "done"
          /\ cfgErr # ""
          /\ cfgExit = 1
          /\ cfgReqs = << >>
          /\ CmdOutputEmpty

\* C22 amended: every command sends requests only with a non-empty resolved
\* token, and metrics, issues, issues:summary, hotspots and quality-gate only
\* with a non-empty resolved project as well; when a value the command
\* requires is missing it ends at entry with an error message, exit code 1,
\* no request and no output; no other command reports a missing project,
\* and rules, measures, measures:history, component-tree, duplications and
\* quality-profiles send their request without one
C22_RequiredFieldsBeforeRequest ==
  /\ cfgReqs # << >>
       => /\ Truthy(Get(Resolved, "token"))
          /\ cfgCmd \in ProjectCommands => Truthy(Get(Resolved, "project"))
          /\ \A i \in DOMAIN cfgReqs :
               /\ cfgReqs[i].token = Get(Resolved, "token")
               /\ cfgCmd \in ProjectCommands
                    => cfgReqs[i].project = Get(Resolved, "project")
  /\ (cfgPc # "call"
        /\ \/ ~Truthy(Get(Resolved, "token"))
           \/ cfgCmd \in ProjectCommands
                /\ ~Truthy(Get(Resolved, "project")))
       => /\ cfgPc = "done"
          /\ cfgErr \in {"Missing token", "Missing project"}
          /\ cfgExit = 1
          /\ cfgReqs = << >>
          /\ CmdOutputEmpty
  /\ cfgCmd \notin ProjectCommands => cfgErr # "Missing project"
  /\ (cfgPc # "call" /\ cfgCmd \notin ProjectCommands \cup SwappedHandlers
        /\ Truthy(Get(Resolved, "token"))
        /\ (cfgCmd \in KeyCommands => cfgKey # ""))
       => cfgReqs # << >>

\* issues without a project anywhere: ended at entry
C22_Witness ==
  /\ cfgPc = "done"
  /\ cfgCmd = "issues"
  /\ Truthy(Get(Resolved, "token"))
  /\ ~Truthy(Get(Resolved, "project"))
  /\ cfgErr = "Missing project"
  /\ cfgExit = 1
  /\ cfgReqs = << >>

C22_WitnessNoToken ==
  /\ cfgPc = "done"
  /\ cfgCmd = "metrics"
  /\ ~Truthy(Get(Resolved, "token"))
  /\ cfgErr = "Missing token"
  /\ cfgReqs = << >>

\* rules with a token and no project: the request is sent
C22_RulesWithoutProject ==
  /\ cfgCmd = "rules"
  /\ ~Truthy(Get(Resolved, "project"))
  /\ Len(cfgReqs) = 1
  /\ cfgReqs[1].path = "/api/rules/search"

\* duplications with a token, a project and a file key: the request is sent
\* and carries no project
C22_DuplicationsDropProject ==
  /\ cfgCmd = "duplications"
  /\ Truthy(Get(Resolved, "project"))
  /\ Len(cfgReqs) = 1
  /\ cfgReqs[1].project = Undefined

\* issue, hotspot and rule never get past their entry tests
C22_SwappedNeverRequest ==
  cfgCmd \in SwappedHandlers
    => /\ cfgReqs = << >>
       /\ cfgPc # "call" => cfgPc = "done" /\ cfgExit = 1
                               /\ cfgErr \in {"Missing token", "key required"}

\* issue KEY-1 with the token given by --token only: Missing token
C22_IssueFlagTokenIgnored ==
  /\ cfgCmd = "issue"
  /\ cfgPc = "done"
  /\ cfgKey = "KEY-1"
  /\ CfgFlag("token") = "c"
  /\ Truthy(Get(Resolved, "token"))
  /\ cfgErr = "Missing token"
  /\ cfgReqs = << >>

\* issue KEY-1 with a stored token: key required
C22_IssueKeyIgnored ==
  /\ cfgCmd = "issue"
  /\ cfgPc = "done"
  /\ cfgKey = "KEY-1"
  /\ CfgFileVal("token") = "a"
  /\ cfgErr = "key required"
  /\ cfgReqs = << >>

C22_MetricsThreeRequests ==
  /\ cfgCmd = "metrics"
  /\ cfgPc = "done"
  /\ Len(cfgReqs) = 3
  /\ cfgExit = 0

\* C23: sources/show is requested only in the step in which sources/raw
\* settles with a failure: never first, never while sources/raw is pending,
\* never after sources/raw returned content, empty content included (which
\* gives null); at most two requests, each endpoint at most once
C23_FallbackOnlyAfterFailure ==
  /\ [](/\ srcReqs \in {<< >>, <<"raw">>, <<"raw", "show">>}
        /\ (srcPc = "raw" => srcReqs = <<"raw">>)
        /\ (srcPc = "show" => srcReqs = <<"raw", "show">>)
        /\ (srcReqs = <<"raw", "show">> => ~srcRaw.ok)
        /\ (srcPc = "done" /\ srcReqs = <<"raw">>)
             => /\ srcRaw.ok
                /\ (srcRaw.data = EmptyText => srcResult = NullSource))
  /\ [][srcReqs' # srcReqs =>
          \/ srcPc = "call" /\ srcReqs = << >> /\ srcReqs' = <<"raw">>
          \/ /\ srcPc = "raw"
             /\ ~srcRaw'.ok
             /\ srcReqs' = <<"raw", "show">>]_vars

\* sources/raw answered with empty content: null, and no second request
C23_Witness ==
  /\ srcPc = "done"
  /\ srcRaw = RawEmpty
  /\ srcReqs = <<"raw">>
  /\ srcResult = NullSource

C23_WitnessFallback ==
  /\ srcPc = "done"
  /\ srcReqs = <<"raw", "show">>
  /\ srcRaw = RawFail
  /\ ~srcResult.isNull

\* this step initiates a snippet fetch
FetchInitiated == \E f \in fetches' : f \notin fetches

\* C24 as stated: the counter changes only by +1, only in a step that
\* initiates a snippet fetch, and every such step increments it (a navigation
\* to a new index moves the code pane to loading with the new value); hence
\* it equals the number of fetches initiated
C24_SeqCountsFetches ==
  [][/\ renderSeq' # renderSeq
          => renderSeq' = renderSeq + 1 /\ FetchInitiated
     /\ FetchInitiated
          => /\ renderSeq' = renderSeq + 1
             /\ fetches' \ fetches =
                  {f \in fetches' : f.seq = renderSeq'}
             /\ code'.kind = "loading" /\ code'.seq = renderSeq']_vars

\* C24 amended: the counter changes only by +1 and exactly in the steps in
\* which render passes its last-rendered test; such a step initiates a fetch
\* tagged with the new value and shows loading for it when the rendered index
\* has an issue, and initiates none when the list is empty there; so the
\* counter is the number of renders not skipped, at least the number of
\* fetches initiated
C24_SeqCountsRenders ==
  [][/\ renderSeq' # renderSeq
          => /\ renderSeq' = renderSeq + 1
             /\ lastRendered' # lastRendered
             /\ FetchInitiated = HasIssue(issues', lastRendered')
     /\ lastRendered' # lastRendered => renderSeq' = renderSeq + 1
     /\ FetchInitiated
          => /\ renderSeq' = renderSeq + 1
             /\ fetches' \ fetches =
                  {f \in fetches' : f.seq = renderSeq'}
             /\ code'.kind = "loading" /\ code'.seq = renderSeq']_vars

\* a navigation to a new index took the counter from 1 to 2
C24_Witness ==
  /\ ev.op = "nav"
  /\ ev.fetched
  /\ renderSeq = 2
  /\ code.kind = "loading" /\ code.seq = 2
  /\ \E f \in fetches : f.seq = 2

\* a switch to a branch without issues, made from index 1: render(0) passed
\* the last-rendered test and counted, with nothing to fetch
C24_CountedWithoutFetch ==
  /\ ev.op = "refetchOk"
  /\ issues = << >>
  /\ lastRendered = 0
  /\ renderSeq = 3
  /\ \A f \in fetches : f.seq < 3

\* C25: with no snippet fetch in flight and a non-empty list, the detail
\* pane and the code pane both show the issue at the selected index of the
\* current list
C25_PanesShowSelectedIssue ==
  (phase = "running" /\ fetches = {} /\ Len(issues) > 0) =>
    /\ selected + 1 \in DOMAIN issues
    /\ detail.key = issues[selected + 1]
    /\ code.key = issues[selected + 1]
    /\ code.kind \in {"snippet", "nosnippet"}

\* the same, looked at right after a branch switch replaced the list
C25_PanesShowSelectedIssueAfterSwitch ==
  (phase = "running" /\ fetches = {} /\ Len(issues) > 0
    /\ ev.op \in {"refetchOk"}) =>
    /\ detail.key = issues[selected + 1]
    /\ code.key = issues[selected + 1]

\* switched from main to develop at index 0: the list shows develop's
\* issues, both panes still show m1 of the replaced list
C25_PanesOfReplacedList ==
  /\ phase = "running"
  /\ fetches = {}
  /\ ev.op = "refetchOk"
  /\ issues = ServerIssues("develop")
  /\ selected = 0
  /\ detail.key = "m1"
  /\ code.key = "m1"

\* C26: a successful switch back to the branch the session started on shows
\* the list shown for it at the start (the first switch asked for as many
\* issues as that list had), and every switch asks for the same number of
\* issues, whatever the length of the list shown when it is made
C26_SwitchBackSameList ==
  /\ (ev.op = "refetchOk" /\ ev.b = branch /\ Len(choices) >= 2
        /\ choices[ev.n].outcome = "ok")
       => issues = getIssues(branch, choices[1].limit)
  /\ \A i \in DOMAIN choices : choices[i].limit = choices[1].limit

\* main with 3 issues, switched to develop (2 issues) and back: 2 issues
C26_ShorterOnReturn ==
  /\ ev.op = "refetchOk"
  /\ branch = "main" /\ ev.b = "main"
  /\ Len(choices) = 2
  /\ choices[1].chosen = "develop" /\ choices[1].limit = 3
  /\ choices[2].limit = 2
  /\ issues = <<"m1", "m2">>

\* switched to the branch without issues and back: asked for 0 issues
C26_EmptyOnReturn ==
  /\ ev.op = "refetchOk"
  /\ branch = "main" /\ ev.b = "main"
  /\ Len(choices) = 2
  /\ choices[1].chosen = "clean"
  /\ choices[2].limit = 0
  /\ issues = << >>

\* C27: at most one branch picker exists at any time, and once a picker
\* closes none is left on screen
C27_AtMostOnePicker ==
  /\ [](Cardinality(openBoxes) <= 1)
  /\ [][(\E b \in openBoxes : b \notin openBoxes') => openBoxes' = {}]_vars

\* the state part of C27 alone
C27_AtMostOnePickerNow == Cardinality(openBoxes) <= 1

\* 'b' pressed twice before the first branch list arrived: two pickers
C27_TwoPickers ==
  /\ phase = "running"
  /\ bPressed = 2
  /\ openBoxes = {1, 2}
  /\ focus = 2

\* the step part of C27 alone: a picker that closes leaves none behind
C27_ClosingLeavesNone ==
  [][(\E b \in openBoxes : b \notin openBoxes') => openBoxes' = {}]_vars

\* C28: a successful switch puts the chosen branch in the list label, and
\* every issue rendered from then on carries the label's branch in the
\* detail pane
C28_BranchShownEverywhere ==
  [][/\ ev'.op = "refetchOk" => label'.branch = ev'.b
     /\ (FetchInitiated /\ \E i \in DOMAIN choices' :
                             choices'[i].outcome = "ok")
          => detail'.branch = label'.branch]_vars

\* the label half of C28 alone
C28_LabelShowsChosen ==
  [][ev'.op = "refetchOk" => label'.branch = ev'.b]_vars

\* switched from main to develop: the label says develop, the detail pane
\* of an issue of develop rendered afterwards says main
C28_DetailShowsOldBranch ==
  /\ phase = "running"
  /\ label.branch = "develop"
  /\ detail.key \in Range(ServerIssues("develop"))
  /\ detail.branch = "main"

\* the rendered lines that carry the focus marker
SrcMarked == {i \in DOMAIN srcResult.snippet : srcResult.snippet[i].marker = ">"}

\* C29: a result with a window has 1 <= start <= focus <= end <= L, L the
\* number of lines of the content, and exactly one rendered line with the
\* focus marker
C29_WindowOrdered ==
  (srcPc = "done" /\ ~srcResult.isNull /\ srcResult.hasWindow) =>
    /\ 1 <= srcResult.start
    /\ srcResult.start <= srcResult.focus
    /\ srcResult.focus <= srcResult.end
    /\ srcResult.end <= Len(srcResult.content)
    /\ Cardinality(SrcMarked) = 1

\* what the code does keep: 1 <= start <= focus and end <= L, and at most
\* one marked line
C29_WindowBoundsKept ==
  (srcPc = "done" /\ ~srcResult.isNull /\ srcResult.hasWindow) =>
    /\ 1 <= srcResult.start
    /\ srcResult.start <= srcResult.focus
    /\ srcResult.end <= Len(srcResult.content)
    /\ Cardinality(SrcMarked) <= 1
    /\ (srcResult.focus <= Len(srcResult.content)
          => srcResult.focus <= srcResult.end /\ Cardinality(SrcMarked) = 1)

\* line 8 of a 5-line file: lines 3 to 5 rendered, none of them marked
C29_FocusPastEnd ==
  /\ SrcGotFile
  /\ srcIssue.hasLine /\ srcIssue.line = 8
  /\ Len(srcText) = 5
  /\ srcResult.start = 3 /\ srcResult.end = 5 /\ srcResult.focus = 8
  /\ Len(srcResult.snippet) = 3
  /\ SrcMarked = {}

\* line 12 of a 5-line file: start 7 is past end 5, nothing rendered
C29_StartPastEnd ==
  /\ SrcGotFile
  /\ srcIssue.hasLine /\ srcIssue.line = 12
  /\ Len(srcText) = 5
  /\ srcResult.hasWindow
  /\ srcResult.start = 7 /\ srcResult.end = 5
  /\ srcResult.snippet = << >>

\* C30: once TERM was downgraded, it is back at its original value whenever
\* browseIssuesTui has returned without a session (empty list) or the
\* process has exited through quit
C30_TermRestored ==
  (termDowngraded /\ phase \in {"empty", "exited"}) => envTERM = origTERM

\* the quit half of C30 alone, a quit during the initial render included
C30_QuitRestoresTerm ==
  (termDowngraded /\ phase = "exited") => envTERM = origTERM

\* quit pressed while the initial render awaits its snippet: TERM restored
\* although the destroy hook was never registered
C30_QuitDuringInitialRender ==
  /\ phase = "exited"
  /\ termDowngraded
  /\ ~destroyHook
  /\ \E f \in fetches : f.seq = 1 /\ f.tail = TailStartup
  /\ envTERM = origTERM

\* the early return for an empty list: TERM left at xterm
C30_EmptyListLeavesXterm ==
  /\ phase = "empty"
  /\ termDowngraded
  /\ origTERM = "xterm-256color"
  /\ envTERM = "xterm"

============================================================================
